---- MODULE Spec2Model ----
(***************************************************************************)
(* Model of the chemstars startup-network pipelines:                       *)
(*   - ConnPreProc_new3_weighted.py : the CSV edge aggregation script      *)
(*   - airtable_etl.py              : fetch_all_records, clean_array_field,*)
(*                                    normalize_location, process_records, *)
(*                                    export_json, main                    *)
(* Text is modelled as sequences of one-character strings so that strip,   *)
(* split, lower, replace, join, sorted and slicing are computed the way    *)
(* Python computes them.  Iteration over a Python set is a nondeterministic*)
(* choice of an ordering of its elements.                                  *)
(***************************************************************************)
EXTENDS Integers, Sequences, FiniteSets, TLC

VARIABLES
    \* ---- ConnPreProc_new3_weighted.py ----
    edges_df,            \* rows read from startup_connections_full.csv
    csv_i,               \* number of rows already folded by the first loop
    csv_combined_edges,  \* defaultdict combined_edges, in insertion order
    weighted_edges,      \* the list of emitted rows
    csv_iter,            \* per emitted row: the order in which iterating over
                         \* info['connections'] yielded its elements in this run
    \* ---- airtable_etl.py : process_records ----
    records,             \* argument of process_records
    api_pc,              \* "idle" until process_records is called, then "running"
    api_i,               \* number of records the indexing loop has consumed
    api_j,               \* number of connection_index items the pairing loop has consumed
    nodes,               \* list of node dicts
    connection_index,    \* defaultdict(list), in insertion order
    combined_edges,      \* defaultdict of edge infos, in insertion order
    edges,               \* list of emitted edge dicts
    \* ---- airtable_etl.py : fetch_all_records / main / export_json ----
    env_ok,              \* all([AIRTABLE_TOKEN, AIRTABLE_BASE_ID, AIRTABLE_TABLE_ID])
    pages,               \* what the Airtable table serves, page by page
    main_pc,             \* position of main(): "idle" | "start" | "exit_env" | "fetching"
                         \*   | "exit_empty" | "processing" | "done"
    all_records,         \* fetch_all_records: all_records
    offset,              \* fetch_all_records: offset (0 models None)
    exported             \* network_data.json: <<>> until written, then <<document>>

csv_vars == <<edges_df, csv_i, csv_combined_edges, weighted_edges, csv_iter>>
api_vars == <<records, api_pc, api_i, api_j, nodes, connection_index, combined_edges, edges>>
main_vars == <<env_ok, pages, main_pc, all_records, offset, exported>>
vars == <<csv_vars, api_vars, main_vars>>

----------------------------------------------------------------------------
(* Bounds of the model *)

MaxRows == 3
MaxRecords == 2
MaxPages == 3
MaxPageSize == 1

----------------------------------------------------------------------------
(* Python str, modelled as a sequence of characters *)

Chars(s) == [i \in 1..Len(s) |-> SubSeq(s, i, i)]

\* Characters outside ASCII are single elements with a symbolic name.
ELLIPSIS == "<U+2026>"
EN_DASH == "<U+2013>"

DigitSeq == Chars("0123456789")

\* Unicode code points of the characters the model uses (the order Python's
\* sorted() compares by)
CodePoint ==
    ("\t" :> 9) @@ (" " :> 32) @@ ("," :> 44) @@ ("-" :> 45) @@ ("0" :> 48) @@ ("1" :> 49) @@
    ("2" :> 50) @@ ("3" :> 51) @@ ("4" :> 52) @@ ("5" :> 53) @@ ("6" :> 54) @@ ("7" :> 55) @@
    ("8" :> 56) @@ ("9" :> 57) @@ (":" :> 58) @@ (";" :> 59) @@ ("A" :> 65) @@ ("B" :> 66) @@
    ("C" :> 67) @@ ("D" :> 68) @@ ("E" :> 69) @@ ("F" :> 70) @@ ("G" :> 71) @@ ("H" :> 72) @@
    ("I" :> 73) @@ ("J" :> 74) @@ ("K" :> 75) @@ ("L" :> 76) @@ ("M" :> 77) @@ ("N" :> 78) @@
    ("O" :> 79) @@ ("P" :> 80) @@ ("Q" :> 81) @@ ("R" :> 82) @@ ("S" :> 83) @@ ("T" :> 84) @@
    ("U" :> 85) @@ ("V" :> 86) @@ ("W" :> 87) @@ ("X" :> 88) @@ ("Y" :> 89) @@ ("Z" :> 90) @@
    ("_" :> 95) @@ ("a" :> 97) @@ ("b" :> 98) @@ ("c" :> 99) @@ ("d" :> 100) @@ ("e" :> 101) @@
    ("f" :> 102) @@ ("g" :> 103) @@ ("h" :> 104) @@ ("i" :> 105) @@ ("j" :> 106) @@ ("k" :> 107) @@
    ("l" :> 108) @@ ("m" :> 109) @@ ("n" :> 110) @@ ("o" :> 111) @@ ("p" :> 112) @@ ("q" :> 113) @@
    ("r" :> 114) @@ ("s" :> 115) @@ ("t" :> 116) @@ ("u" :> 117) @@ ("v" :> 118) @@ ("w" :> 119) @@
    ("x" :> 120) @@ ("y" :> 121) @@ ("z" :> 122) @@
    (EN_DASH :> 8211) @@ (ELLIPSIS :> 8230)

Ord(c) == CodePoint[c]

IsSpace(c) == c \in {" ", "\t"}

\* the characters str.lower() changes
LowerCase ==
    ("A" :> "a") @@ ("B" :> "b") @@ ("C" :> "c") @@ ("D" :> "d") @@ ("E" :> "e") @@ ("F" :> "f") @@
    ("G" :> "g") @@ ("H" :> "h") @@ ("I" :> "i") @@ ("J" :> "j") @@ ("K" :> "k") @@ ("L" :> "l") @@
    ("M" :> "m") @@ ("N" :> "n") @@ ("O" :> "o") @@ ("P" :> "p") @@ ("Q" :> "q") @@ ("R" :> "r") @@
    ("S" :> "s") @@ ("T" :> "t") @@ ("U" :> "u") @@ ("V" :> "v") @@ ("W" :> "w") @@ ("X" :> "x") @@
    ("Y" :> "y") @@ ("Z" :> "z")

LowerChar(c) == IF c \in DOMAIN LowerCase THEN LowerCase[c] ELSE c

\* a list comprehension, evaluated once into a list value
AsList(f) == f \o <<>>

\* str.lower()
Lower(s) == AsList([i \in 1..Len(s) |-> LowerChar(s[i])])

\* str.strip()
Strip(s) ==
    IF \A i \in 1..Len(s) : IsSpace(s[i]) THEN <<>>
    ELSE LET first == CHOOSE i \in 1..Len(s) :
                        ~IsSpace(s[i]) /\ \A j \in 1..(i - 1) : IsSpace(s[j])
             last == CHOOSE i \in 1..Len(s) :
                        ~IsSpace(s[i]) /\ \A j \in (i + 1)..Len(s) : IsSpace(s[j])
         IN  SubSeq(s, first, last)

\* str.rstrip(chars): drop the trailing characters that are in chars
RStripChars(s, chars) ==
    IF \A i \in 1..Len(s) : s[i] \in chars THEN <<>>
    ELSE LET last == CHOOSE i \in 1..Len(s) :
                        s[i] \notin chars /\ \A j \in (i + 1)..Len(s) : s[j] \in chars
         IN  SubSeq(s, 1, last)

\* str.rstrip()
RStrip(s) == RStripChars(s, {" ", "\t"})

\* s[:n]
Prefix(s, n) == SubSeq(s, 1, IF n < Len(s) THEN n ELSE Len(s))

\* concatenation of the sequences ss[lo], ..., ss[hi] (by halves, so that the
\* evaluation depth stays logarithmic in the length of a label)
RECURSIVE FlattenRange(_, _, _)
FlattenRange(ss, lo, hi) ==
    IF lo > hi THEN <<>>
    ELSE IF lo = hi THEN ss[lo]
    ELSE LET mid == (lo + hi) \div 2
         IN  FlattenRange(ss, lo, mid) \o FlattenRange(ss, mid + 1, hi)

Flatten(ss) == FlattenRange(ss, 1, Len(ss))

\* ' '.join(s.split()): whitespace runs collapsed to one space, ends trimmed
CollapseWs(s) ==
    LET t == Strip(s)
    IN  Flatten([i \in 1..Len(t) |->
            IF ~IsSpace(t[i]) THEN <<t[i]>>
            ELSE IF ~IsSpace(t[i-1]) THEN <<" ">>
            ELSE <<>>])

\* ' '.join(s.split()).lower(): the key both dedupe loops compare
NormKey(s) == Lower(CollapseWs(s))

\* does sub occur in s at position i
OccursAt(s, sub, i) ==
    /\ i >= 1
    /\ i + Len(sub) - 1 <= Len(s)
    /\ \A k \in 1..Len(sub) : s[i + k - 1] = sub[k]

\* sub in s
Contains(s, sub) == \E i \in 1..(Len(s) + 1) : OccursAt(s, sub, i)

\* str.find(sub) + 1 for a sub that occurs
FindFirst(s, sub) ==
    CHOOSE i \in 1..(Len(s) + 1) :
        OccursAt(s, sub, i) /\ \A j \in 1..(i - 1) : ~OccursAt(s, sub, j)

\* str.replace(old, new), left to right, non-overlapping (old is non-empty)
Replace(s, old, new) ==
    LET n == Len(old)
        \* a match starts at i: old occurs there and no earlier match covers i
        taken[i \in 1..Len(s)] ==
            /\ OccursAt(s, old, i)
            /\ \A j \in (i - n + 1)..(i - 1) : ~(OccursAt(s, old, j) /\ taken[j])
        covered(i) == \E j \in (i - n + 1)..(i - 1) : OccursAt(s, old, j) /\ taken[j]
    IN  Flatten([i \in 1..Len(s) |->
            IF taken[i] THEN new
            ELSE IF covered(i) THEN <<>>
            ELSE <<s[i]>>])

\* sep.join(list)
Join(sep, list) ==
    LET f[i \in 0..Len(list)] ==
            IF i = 0 THEN <<>>
            ELSE IF i = 1 THEN list[1]
            ELSE f[i-1] \o sep \o list[i]
    IN  f[Len(list)]

\* a < b for Python str: lexicographic by code point
StrLess(a, b) ==
    \E k \in 1..(Len(a) + 1) :
        /\ k <= Len(b)
        /\ \/ k = Len(a) + 1
           \/ (a[k] # b[k] /\ Ord(a[k]) < Ord(b[k]))
        /\ \A j \in 1..(k - 1) : a[j] = b[j]

\* sorted(list) for a list of str (stable)
SortedList(list) ==
    LET before(j, i) == StrLess(list[j], list[i]) \/ (list[j] = list[i] /\ j < i)
        rank(i) == Cardinality({j \in 1..Len(list) : before(j, i)}) + 1
    IN  [p \in 1..Len(list) |-> list[CHOOSE i \in 1..Len(list) : rank(i) = p]]

\* sorted(set) for a set of str
RECURSIVE SortedSet(_)
SortedSet(S) ==
    IF S = {} THEN <<>>
    ELSE LET least == CHOOSE x \in S : \A y \in S : y = x \/ StrLess(x, y)
         IN  <<least>> \o SortedSet(S \ {least})

\* str(n) for an int n >= 0
IntToStr(n) ==
    LET f[k \in 0..n] ==
            IF k < 10 THEN <<DigitSeq[k + 1]>>
            ELSE Append(f[k \div 10], DigitSeq[(k % 10) + 1])
    IN  f[n]

\* every order in which iterating over a Python set may yield its elements
Orderings(S) ==
    {o \in [1..Cardinality(S) -> S] : \A x \in S : \E i \in DOMAIN o : o[i] = x}

\* position of key in an insertion-ordered dict (0 when absent)
DictPos(dict, key) ==
    IF \E i \in 1..Len(dict) : dict[i].key = key
    THEN CHOOSE i \in 1..Len(dict) : dict[i].key = key
    ELSE 0

----------------------------------------------------------------------------
(* ConnPreProc_new3_weighted.py *)

K_city == Chars("city")
K_country == Chars("country")
K_competency == Chars("competency")
K_impact == Chars("impact")
K_target_market == Chars("target_market")
K_other == Chars("other")

\* keys of the dict `parsed`
ParsedKeys == {K_city, K_country, K_competency, K_impact, K_target_market, K_other}

LABEL_MAX == 120

\* the key without the sort
SortedPair_unsorted(a, b) == <<a, b>>

\* tuple(sorted([a, b]))
SortedPair(a, b) == IF StrLess(b, a) THEN <<b, a>> ELSE <<a, b>>

\* the default value of combined_edges
CsvDefaultInfo == [weight |-> 0, types |-> {}, connections |-> {}]

\* body of the first loop: fold one CSV row into combined_edges
CsvFoldRow(dict, row) ==
    LET node_pair == SortedPair(row.Source, row.Target)
        pos == DictPos(dict, node_pair)
        old == IF pos = 0 THEN CsvDefaultInfo ELSE dict[pos].info
        new == [weight |-> old.weight + 1,
                types |-> old.types \cup {row.Type},
                connections |-> old.connections \cup {row.Connection_full}]
    IN  IF pos = 0
        THEN Append(dict, [key |-> node_pair, info |-> new])
        ELSE [dict EXCEPT ![pos].info = new]

\* the split with the value of an unknown category filed under its own name
ParseConn_unfiled(conn) ==
    IF Contains(conn, <<":", " ">>)
    THEN LET p == FindFirst(conn, <<":", " ">>)
         IN  [cat |-> Lower(Strip(SubSeq(conn, 1, p - 1))),
              v |-> Strip(SubSeq(conn, p + 2, Len(conn)))]
    ELSE [cat |-> K_other, v |-> conn]

\* one connection string split into (category it is filed under, value)
ParseConn(conn) ==
    IF Contains(conn, <<":", " ">>)
    THEN LET p == FindFirst(conn, <<":", " ">>)
             t == Lower(Strip(SubSeq(conn, 1, p - 1)))
             v == Strip(SubSeq(conn, p + 2, Len(conn)))
         IN  [cat |-> IF t \in ParsedKeys THEN t ELSE K_other, v |-> v]
    ELSE [cat |-> K_other, v |-> conn]

\* the dict `parsed` after the loop over info['connections'] in iteration order
Parsed(order) ==
    LET split == AsList([i \in 1..Len(order) |-> ParseConn(order[i])])
    IN  [k \in ParsedKeys |->
            Flatten([i \in 1..Len(order) |->
                IF split[i].cat = k THEN <<split[i].v>> ELSE <<>>])]

\* norm_location
norm_location(s) ==
    Strip(Replace(Replace(s, <<" ", "-", " ">>, <<"-">>), <<" ", EN_DASH, " ">>, <<"-">>))

\* dedupe_preserve_order; also the token loop that builds final_parts:
\* an element is appended iff its key is non-empty and no earlier element has it
dedupe_preserve_order(seq) ==
    LET keys == AsList([i \in 1..Len(seq) |-> NormKey(seq[i])])
    IN  Flatten([i \in 1..Len(seq) |->
            IF keys[i] # <<>> /\ \A j \in 1..(i - 1) : keys[j] # keys[i]
            THEN <<seq[i]>>
            ELSE <<>>])

FirstOrEmpty(list) == IF Len(list) > 0 THEN list[1] ELSE <<>>

OptToken(s) == IF s # <<>> THEN <<s>> ELSE <<>>

\* raw_parts
CsvRawParts(source, target, parsed) ==
    LET city == FirstOrEmpty(parsed[K_city])
        country == FirstOrEmpty(parsed[K_country])
        city_str == IF city # <<>> THEN norm_location(city) ELSE <<>>
        country_str == IF country # <<>> THEN norm_location(country) ELSE <<>>
        comp_str == Join(<<";">>, dedupe_preserve_order(parsed[K_competency]))
        imp_str == Join(<<";">>, dedupe_preserve_order(parsed[K_impact]))
        market_str == Join(<<";">>, dedupe_preserve_order(parsed[K_target_market]))
    IN  OptToken(source)
        \o (IF target # <<>> /\ target # source THEN <<target>> ELSE <<>>)
        \o OptToken(comp_str) \o OptToken(imp_str) \o OptToken(market_str)
        \o OptToken(city_str) \o OptToken(country_str)

\* label_detailed before the length check
CsvLabelUntruncated(source, target, order) ==
    Join(<<",", " ">>, dedupe_preserve_order(CsvRawParts(source, target, Parsed(order))))

\* the LABEL_MAX truncation
CsvTruncate(label) ==
    IF Len(label) > LABEL_MAX
    THEN Append(RStrip(RStripChars(Prefix(label, LABEL_MAX - 1), {",", " "})), ELLIPSIS)
    ELSE label

CsvLabelDetailed(source, target, order) ==
    CsvTruncate(CsvLabelUntruncated(source, target, order))

Flag(b) == IF b THEN 1 ELSE 0

\* the dict appended to weighted_edges for one combined edge
WeightedEdge(source, target, info, order) ==
    [Source |-> source,
     Target |-> target,
     Weight |-> info.weight,
     Types |-> Join(<<";">>, SortedSet(info.types)),
     Connections |-> Join(<<";">>, SortedSet(info.connections)),
     Label |-> IntToStr(info.weight) \o Chars(" connections: ")
               \o Join(<<",", " ">>, SortedSet(info.types)),
     LabelDetailed |-> CsvLabelDetailed(source, target, order),
     is_competency |-> Flag(K_competency \in info.types),
     is_impact |-> Flag(K_impact \in info.types),
     is_city |-> Flag(K_city \in info.types),
     is_country |-> Flag(K_country \in info.types),
     is_target_market |-> Flag(K_target_market \in info.types)]

\* ---- inputs of the CSV pipeline ----

Repeat(c, n) == [i \in 1..n |-> c]

CsvRow(source, target, type, conn) ==
    [Source |-> source, Target |-> target, Type |-> type, Connection_full |-> conn]

N_A == Chars("A")
N_B == Chars("B")
N_C == Chars("C")

\* a competency long enough that "A, B, <it>;ML" is cut right after the ';'
CsvLongValue == Repeat("a", LABEL_MAX - 8)

CsvRowUniverse ==
    { CsvRow(N_A, N_B, K_competency, Chars("competency: ML")),
      CsvRow(N_B, N_A, K_competency, Chars("competency: ml")),
      CsvRow(N_A, N_B, K_city, Chars("city: DE - Berlin")),
      CsvRow(N_A, N_A, K_city, Chars("city: DE - Berlin")),
      CsvRow(N_A, N_C, K_impact, Chars("impact: Health")),
      CsvRow(N_A, N_B, Chars("foo"), Chars("foo: bar")),
      CsvRow(N_A, N_B, K_other, Chars("nosep")),
      CsvRow(N_A, N_B, K_competency, Chars("competency: ") \o CsvLongValue) }

SeqsUpTo(S, n) == UNION {[1..k -> S] : k \in 0..n}

CsvDone == csv_i = Len(edges_df) /\ Len(weighted_edges) = Len(csv_combined_edges)

ApiIdle ==
    /\ records = <<>>
    /\ api_pc = "idle"
    /\ api_i = 0
    /\ api_j = 0
    /\ nodes = <<>>
    /\ connection_index = <<>>
    /\ combined_edges = <<>>
    /\ edges = <<>>

MainIdle ==
    /\ env_ok = FALSE
    /\ pages = <<>>
    /\ main_pc = "idle"
    /\ all_records = <<>>
    /\ offset = 0
    /\ exported = <<>>

InitCSV ==
    /\ edges_df \in SeqsUpTo(CsvRowUniverse, MaxRows)
    /\ csv_i = 0
    /\ csv_combined_edges = <<>>
    /\ weighted_edges = <<>>
    /\ csv_iter = <<>>
    /\ ApiIdle
    /\ MainIdle

\* one iteration of `for _, row in edges_df.iterrows()`
AggregateRow ==
    /\ csv_i < Len(edges_df)
    /\ csv_combined_edges' = CsvFoldRow(csv_combined_edges, edges_df[csv_i + 1])
    /\ csv_i' = csv_i + 1
    /\ UNCHANGED <<edges_df, weighted_edges, csv_iter>>
    /\ UNCHANGED <<api_vars, main_vars>>

\* one iteration of `for (source, target), info in combined_edges.items()`
BuildWeightedEdge ==
    /\ csv_i = Len(edges_df)
    /\ Len(weighted_edges) < Len(csv_combined_edges)
    /\ LET e == csv_combined_edges[Len(weighted_edges) + 1]
       IN  \E order \in Orderings(e.info.connections) :
              /\ weighted_edges' =
                    Append(weighted_edges, WeightedEdge(e.key[1], e.key[2], e.info, order))
              /\ csv_iter' = Append(csv_iter, order)
    /\ UNCHANGED <<edges_df, csv_i, csv_combined_edges>>
    /\ UNCHANGED <<api_vars, main_vars>>

NextCSV == AggregateRow \/ BuildWeightedEdge

SpecCSV == InitCSV /\ [][NextCSV]_vars

----------------------------------------------------------------------------
(* airtable_etl.py : clean_array_field, normalize_location, process_records *)

T_competency == Chars("competency")
T_technical_competency == Chars("technical_competency")
T_impact == Chars("impact")
T_country == Chars("country")
T_city == Chars("city")
T_region == Chars("region")
T_cohort == Chars("cohort")

MAX_LABEL == 120

\* A raw Airtable field value: kind "none" (key absent or None), "str" (a scalar
\* string, items = <<it>>) or "list" (a list of strings).
NoValue == [kind |-> "none", items |-> <<>>]
StrValue(s) == [kind |-> "str", items |-> <<s>>]
ListValue(l) == [kind |-> "list", items |-> l]

\* Python truthiness of a raw field value
Truthy(fv) ==
    CASE fv.kind = "none" -> FALSE
      [] fv.kind = "str" -> fv.items[1] # <<>>
      [] fv.kind = "list" -> fv.items # <<>>

\* clean_array_field
clean_array_field(field_value) ==
    IF ~Truthy(field_value) THEN <<>>
    ELSE IF field_value.kind = "list"
    THEN Flatten([i \in 1..Len(field_value.items) |->
            IF field_value.items[i] # <<>>
            THEN <<Strip(field_value.items[i])>>
            ELSE <<>>])
    ELSE <<Strip(field_value.items[1])>>

\* normalize_location
normalize_location(location_str) ==
    IF location_str = <<>> THEN <<>>
    ELSE Strip(Replace(Replace(location_str, <<" ", "-", " ">>, <<"-">>),
                       <<" ", EN_DASH, " ">>, <<"-">>))

\* fields.get('Startup', '').strip()
StartupName(fields) ==
    IF fields.Startup.kind = "str" THEN Strip(fields.Startup.items[1]) ELSE <<>>

\* the node dict of one record (Website, One liner and Logo are copied the same
\* way as Description and are left out)
Node(fields) ==
    [id |-> StartupName(fields),
     label |-> StartupName(fields),
     description |-> IF fields.Description.kind = "str"
                     THEN fields.Description.items[1] ELSE <<>>,
     location_hq |-> clean_array_field(fields.LocationHQ)]

\* the (conn_type, value) assignments of one record, in the order the seven
\* indexing loops visit them
Assignments(fields) ==
    LET of(type, field) ==
            LET vals == clean_array_field(field)
            IN  [i \in 1..Len(vals) |-> <<type, vals[i]>>]
    IN  of(T_competency, fields.CoreCompetencies)
        \o of(T_technical_competency, fields.TechnicalCompetencies)
        \o of(T_impact, fields.Impact)
        \o of(T_country, fields.LocationCountry)
        \o of(T_city, fields.LocationCity)
        \o of(T_region, fields.Region)
        \o of(T_cohort, fields.Cohort)

\* connection_index[key].append(startup_name)
IndexAppend(index, key, startup_name) ==
    LET pos == DictPos(index, key)
    IN  IF pos = 0
        THEN Append(index, [key |-> key, list |-> <<startup_name>>])
        ELSE [index EXCEPT ![pos].list = Append(@, startup_name)]

\* connection_index after the indexing loops of one record
RECURSIVE IndexAssignments(_, _, _, _)
IndexAssignments(index, assignments, k, startup_name) ==
    IF k > Len(assignments) THEN index
    ELSE IndexAssignments(IndexAppend(index, assignments[k], startup_name),
                          assignments, k + 1, startup_name)

\* list(combinations(seq, 2))
Combinations2(seq) ==
    Flatten([i \in 1..Len(seq) |->
        [d \in 1..(Len(seq) - i) |-> <<seq[i], seq[i + d]>>]])

\* the default value of combined_edges
ApiDefaultInfo ==
    [weight |-> 0, types |-> {}, connections |-> {},
     competencies |-> {}, technical_competencies |-> {}, impacts |-> {},
     cities |-> {}, countries |-> {}, regions |-> {}, cohorts |-> {}]

\* the if/elif chain that tracks the value by specific type
TrackByType(info, conn_type, conn_value) ==
    IF conn_type = T_competency
    THEN [info EXCEPT !.competencies = @ \cup {conn_value}]
    ELSE IF conn_type = T_technical_competency
    THEN [info EXCEPT !.technical_competencies = @ \cup {conn_value}]
    ELSE IF conn_type = T_impact
    THEN [info EXCEPT !.impacts = @ \cup {conn_value}]
    ELSE IF conn_type = T_city
    THEN [info EXCEPT !.cities = @ \cup {conn_value}]
    ELSE IF conn_type = T_country
    THEN [info EXCEPT !.countries = @ \cup {conn_value}]
    ELSE IF conn_type = T_region
    THEN [info EXCEPT !.regions = @ \cup {conn_value}]
    ELSE IF conn_type = T_cohort
    THEN [info EXCEPT !.cohorts = @ \cup {conn_value}]
    ELSE info

\* the fold with the weight counting distinct connections only
ApiFoldPair_distinct(dict, source, target, conn_type, conn_value) ==
    LET edge_key == SortedPair(source, target)
        pos == DictPos(dict, edge_key)
        old == IF pos = 0 THEN ApiDefaultInfo ELSE dict[pos].info
        conn == conn_type \o <<":", " ">> \o conn_value
        new == TrackByType(
                 [old EXCEPT !.weight = IF conn \in old.connections THEN @ ELSE @ + 1,
                             !.types = @ \cup {conn_type},
                             !.connections = @ \cup {conn}],
                 conn_type, conn_value)
    IN  IF pos = 0
        THEN Append(dict, [key |-> edge_key, info |-> new])
        ELSE [dict EXCEPT ![pos].info = new]

\* body of the loop over combinations: fold one (source, target) pair
ApiFoldPair(dict, source, target, conn_type, conn_value) ==
    LET edge_key == SortedPair(source, target)
        pos == DictPos(dict, edge_key)
        old == IF pos = 0 THEN ApiDefaultInfo ELSE dict[pos].info
        new == TrackByType(
                 [old EXCEPT !.weight = @ + 1,
                             !.types = @ \cup {conn_type},
                             !.connections = @ \cup {conn_type \o <<":", " ">> \o conn_value}],
                 conn_type, conn_value)
    IN  IF pos = 0
        THEN Append(dict, [key |-> edge_key, info |-> new])
        ELSE [dict EXCEPT ![pos].info = new]

RECURSIVE ApiFoldPairs(_, _, _, _, _)
ApiFoldPairs(dict, pairs, k, conn_type, conn_value) ==
    IF k > Len(pairs) THEN dict
    ELSE ApiFoldPairs(ApiFoldPair(dict, pairs[k][1], pairs[k][2], conn_type, conn_value),
                      pairs, k + 1, conn_type, conn_value)

\* the pairs one connection_index item expands to
ExpandPairs(startup_list) ==
    IF Len(startup_list) < 2 THEN <<>>
    ELSE Combinations2(SortedList(startup_list))

\* body of the loop over connection_index.items()
ApiFoldEntry(dict, entry) ==
    ApiFoldPairs(dict, ExpandPairs(entry.list), 1, entry.key[1], entry.key[2])

\* label_parts
ApiLabelParts(info) ==
    LET part(S) == IF S # {} THEN <<Join(<<";", " ">>, SortedSet(S))>> ELSE <<>>
        loc(S) == IF S # {}
                  THEN LET sorted == SortedSet(S)
                       IN  <<Join(<<";", " ">>,
                                  AsList([i \in 1..Len(sorted) |->
                                            normalize_location(sorted[i])]))>>
                  ELSE <<>>
    IN  part(info.competencies) \o part(info.technical_competencies)
        \o part(info.impacts) \o loc(info.cities) \o loc(info.countries)
        \o part(info.regions) \o part(info.cohorts)

\* label_detailed before the length check
ApiLabelUntruncated(info) == Join(<<",", " ">>, ApiLabelParts(info))

\* the MAX_LABEL truncation
ApiTruncate(label) ==
    IF Len(label) > MAX_LABEL
    THEN Append(RStripChars(Prefix(label, MAX_LABEL - 1), {",", " "}), ELLIPSIS)
    ELSE label

\* the edge dict of one combined edge; o gives, for each set turned into a list
\* with list(), the order in which iterating over it yielded its elements
Edge(source, target, info, o) ==
    [source |-> source,
     target |-> target,
     weight |-> info.weight,
     label |-> IntToStr(info.weight) \o Chars(" connections"),
     label_detailed |-> ApiTruncate(ApiLabelUntruncated(info)),
     types |-> o.types,
     is_competency |-> T_competency \in info.types,
     is_technical_competency |-> T_technical_competency \in info.types,
     is_impact |-> T_impact \in info.types,
     is_city |-> T_city \in info.types,
     is_country |-> T_country \in info.types,
     is_region |-> T_region \in info.types,
     is_cohort |-> T_cohort \in info.types,
     competencies |-> o.competencies,
     technical_competencies |-> o.technical_competencies,
     impacts |-> o.impacts,
     cities |-> o.cities,
     countries |-> o.countries,
     regions |-> o.regions,
     cohorts |-> o.cohorts]

\* every way list() may order the sets of one edge info
ListOrders(info) ==
    [types : Orderings(info.types),
     competencies : Orderings(info.competencies),
     technical_competencies : Orderings(info.technical_competencies),
     impacts : Orderings(info.impacts),
     cities : Orderings(info.cities),
     countries : Orderings(info.countries),
     regions : Orderings(info.regions),
     cohorts : Orderings(info.cohorts)]

\* ---- inputs of process_records ----

NoFields ==
    [Startup |-> NoValue, Description |-> NoValue, LocationHQ |-> NoValue,
     CoreCompetencies |-> NoValue, TechnicalCompetencies |-> NoValue,
     Impact |-> NoValue, LocationCountry |-> NoValue, LocationCity |-> NoValue,
     Region |-> NoValue, Cohort |-> NoValue]

Record(id, fields) == [id |-> id, fields |-> fields]

\* a technical competency long enough that "ML; ml, <it>; b" is cut right after
\* the ';'
ApiLongValue == Repeat("a", MAX_LABEL - 10)

ApiRecordUniverse ==
    { Record("rec1", [NoFields EXCEPT
          !.Startup = StrValue(Chars("A")),
          !.Description = StrValue(Chars("first")),
          !.CoreCompetencies = ListValue(<<Chars("ML"), Chars("NLP")>>),
          !.LocationCity = ListValue(<<Chars("DE - Berlin")>>),
          !.Region = ListValue(<<Chars("EU")>>)]),
      Record("rec2", [NoFields EXCEPT
          !.Startup = StrValue(Chars(" B")),
          !.LocationHQ = StrValue(Chars("Berlin ")),
          !.CoreCompetencies = ListValue(<<Chars("ML"), Chars("NLP")>>),
          !.LocationCity = ListValue(<<Chars("DE - Berlin")>>)]),
      Record("rec3", [NoFields EXCEPT
          !.Startup = StrValue(Chars("A")),
          !.CoreCompetencies = ListValue(<<Chars("ML"), Chars("ml"), Chars("ML ")>>),
          !.TechnicalCompetencies = ListValue(<<ApiLongValue, Chars("b")>>),
          !.Impact = StrValue(Chars("  "))]),
      Record("rec4", [NoFields EXCEPT
          !.Startup = StrValue(Chars("B")),
          !.CoreCompetencies = ListValue(<<Chars("ML"), Chars("ml"), <<>>>>),
          !.TechnicalCompetencies = ListValue(<<ApiLongValue, Chars("b")>>),
          !.Impact = ListValue(<<Chars(" ")>>)]),
      Record("rec5", [NoFields EXCEPT
          !.CoreCompetencies = ListValue(<<Chars("ML")>>)]),
      Record("rec6", [NoFields EXCEPT
          !.Startup = StrValue(Chars("C")),
          !.CoreCompetencies = StrValue(Chars("ML")),
          !.LocationCity = ListValue(<<Chars("DE - Berlin")>>),
          !.Region = ListValue(<<Chars("EU")>>)]) }

ApiIndexing == api_pc = "running" /\ api_i < Len(records)
ApiExpanding ==
    api_pc = "running" /\ api_i = Len(records) /\ api_j < Len(connection_index)
ApiBuilding ==
    /\ api_pc = "running" /\ api_i = Len(records) /\ api_j = Len(connection_index)
    /\ Len(edges) < Len(combined_edges)
\* process_records has returned (nodes, edges)
ApiDone ==
    /\ api_pc = "running" /\ api_i = Len(records) /\ api_j = Len(connection_index)
    /\ Len(edges) = Len(combined_edges)

CsvIdle ==
    /\ edges_df = <<>>
    /\ csv_i = 0
    /\ csv_combined_edges = <<>>
    /\ weighted_edges = <<>>
    /\ csv_iter = <<>>

InitAPI ==
    /\ records \in SeqsUpTo(ApiRecordUniverse, MaxRecords)
    /\ api_pc = "running"
    /\ api_i = 0
    /\ api_j = 0
    /\ nodes = <<>>
    /\ connection_index = <<>>
    /\ combined_edges = <<>>
    /\ edges = <<>>
    /\ CsvIdle
    /\ MainIdle

\* one iteration of `for record in records`
IndexRecord ==
    /\ ApiIndexing
    /\ LET fields == records[api_i + 1].fields
           startup_name == StartupName(fields)
       IN  IF startup_name = <<>>
           THEN UNCHANGED <<nodes, connection_index>>
           ELSE /\ nodes' = Append(nodes, Node(fields))
                /\ connection_index' =
                      IndexAssignments(connection_index, Assignments(fields), 1, startup_name)
    /\ api_i' = api_i + 1
    /\ UNCHANGED <<records, api_pc, api_j, combined_edges, edges>>
    /\ UNCHANGED <<csv_vars, main_vars>>

\* one iteration of `for (conn_type, conn_value), startup_list in connection_index.items()`
ExpandEntry ==
    /\ ApiExpanding
    /\ combined_edges' = ApiFoldEntry(combined_edges, connection_index[api_j + 1])
    /\ api_j' = api_j + 1
    /\ UNCHANGED <<records, api_pc, api_i, nodes, connection_index, edges>>
    /\ UNCHANGED <<csv_vars, main_vars>>

\* one iteration of `for (source, target), info in combined_edges.items()`
BuildEdge ==
    /\ ApiBuilding
    /\ LET e == combined_edges[Len(edges) + 1]
       IN  \E o \in ListOrders(e.info) :
              edges' = Append(edges, Edge(e.key[1], e.key[2], e.info, o))
    /\ UNCHANGED <<records, api_pc, api_i, api_j, nodes, connection_index, combined_edges>>
    /\ UNCHANGED <<csv_vars, main_vars>>

NextAPI == IndexRecord \/ ExpandEntry \/ BuildEdge

SpecAPI == InitAPI /\ [][NextAPI]_vars

----------------------------------------------------------------------------
(* airtable_etl.py : fetch_all_records, export_json, main *)

\* data of the response to requests.get with params {'offset': offset}: the page
\* the cursor names and, unless it is the last page, the cursor of the next one
\* (a cursor is modelled by the number of the page it names; 0 is no cursor)
AirtableResponse(table, cursor) ==
    LET p == IF cursor = 0 THEN 1 ELSE cursor
    IN  [records |-> table[p], offset |-> IF p < Len(table) THEN p + 1 ELSE 0]

\* the except branch returning the pages fetched so far
FetchErrorResult_partial(fetched) == fetched

\* what fetch_all_records returns from its except branch
FetchErrorResult(fetched) == <<>>

\* the document export_json dumps
ExportDocument(ns, es) ==
    [nodes |-> ns,
     edges |-> es,
     metadata |-> [total_nodes |-> Len(ns), total_edges |-> Len(es),
                   generated_at |-> "None"]]

\* every record of the table, in page order
RECURSIVE AllPagesFrom(_, _)
AllPagesFrom(table, p) ==
    IF p > Len(table) THEN <<>> ELSE table[p] \o AllPagesFrom(table, p + 1)

MainRecordUniverse ==
    { Record("recA", [NoFields EXCEPT
          !.Startup = StrValue(Chars("A")),
          !.CoreCompetencies = ListValue(<<Chars("ML")>>)]),
      Record("recB", [NoFields EXCEPT
          !.Startup = StrValue(Chars("B")),
          !.CoreCompetencies = ListValue(<<Chars("ML")>>)]) }

InitMain ==
    /\ env_ok \in BOOLEAN
    /\ pages \in UNION {[1..n -> SeqsUpTo(MainRecordUniverse, MaxPageSize)] : n \in 1..MaxPages}
    /\ main_pc = "start"
    /\ all_records = <<>>
    /\ offset = 0
    /\ exported = <<>>
    /\ ApiIdle
    /\ CsvIdle

\* main: the environment check, up to the call of fetch_all_records
MainValidate ==
    /\ main_pc = "start"
    /\ main_pc' = IF env_ok THEN "fetching" ELSE "exit_env"
    /\ UNCHANGED <<env_ok, pages, all_records, offset, exported>>
    /\ UNCHANGED <<csv_vars, api_vars>>

\* fetch_all_records: one successful request; after the page without offset the
\* function returns, main tests the result and calls process_records
FetchPage ==
    /\ main_pc = "fetching"
    /\ LET data == AirtableResponse(pages, offset)
           fetched == all_records \o data.records
       IN  /\ all_records' = fetched
           /\ offset' = data.offset
           /\ IF data.offset # 0
              THEN UNCHANGED <<main_pc, records, api_pc>>
              ELSE /\ records' = fetched
                   /\ main_pc' = IF fetched = <<>> THEN "exit_empty" ELSE "processing"
                   /\ api_pc' = IF fetched = <<>> THEN api_pc ELSE "running"
    /\ UNCHANGED <<env_ok, pages, exported>>
    /\ UNCHANGED <<api_i, api_j, nodes, connection_index, combined_edges, edges>>
    /\ UNCHANGED csv_vars

\* fetch_all_records: a request raises RequestException; main tests the result
FetchFail ==
    /\ main_pc = "fetching"
    /\ LET result == FetchErrorResult(all_records)
       IN  /\ records' = result
           /\ main_pc' = IF result = <<>> THEN "exit_empty" ELSE "processing"
           /\ api_pc' = IF result = <<>> THEN api_pc ELSE "running"
    /\ UNCHANGED <<env_ok, pages, all_records, offset, exported>>
    /\ UNCHANGED <<api_i, api_j, nodes, connection_index, combined_edges, edges>>
    /\ UNCHANGED csv_vars

\* main: export_json(nodes, edges) once process_records has returned
ExportJson ==
    /\ main_pc = "processing"
    /\ ApiDone
    /\ exported' = <<ExportDocument(nodes, edges)>>
    /\ main_pc' = "done"
    /\ UNCHANGED <<env_ok, pages, all_records, offset>>
    /\ UNCHANGED <<csv_vars, api_vars>>

NextMain ==
    \/ MainValidate
    \/ FetchPage
    \/ FetchFail
    \/ IndexRecord
    \/ ExpandEntry
    \/ BuildEdge
    \/ ExportJson

SpecMain == InitMain /\ [][NextMain]_vars

----------------------------------------------------------------------------
(* Both pipelines: one run is either the CSV script or process_records *)

Init == InitCSV \/ InitAPI

Next == NextCSV \/ NextAPI

Spec == Init /\ [][Next]_vars

----------------------------------------------------------------------------
(* Properties *)

\* the sharing events of the CSV pipeline: the rows whose unordered pair is {a, b}
CsvEventsOf(a, b) ==
    {i \in 1..Len(edges_df) : {edges_df[i].Source, edges_df[i].Target} = {a, b}}

\* the sharing events of process_records: for every connection_index item, one
\* event for every two positions of its startup list
ApiEvents ==
    UNION {
        {[type |-> connection_index[n].key[1],
          value |-> connection_index[n].key[2],
          entry |-> n, i |-> i, j |-> j,
          pair |-> {connection_index[n].list[i], connection_index[n].list[j]}] :
            <<i, j>> \in {q \in (1..Len(connection_index[n].list))
                                  \X (1..Len(connection_index[n].list)) : q[1] < q[2]}} :
        n \in 1..Len(connection_index)}

ApiEventsOf(a, b) == {ev \in ApiEvents : ev.pair = {a, b}}

ValuesOf(events, type) == {ev.value : ev \in {x \in events : x.type = type}}

SeqToSet(seq) == {seq[i] : i \in 1..Len(seq)}

\* C1: in both pipelines the weight of every emitted edge is the number of
\* sharing events (CSV rows, generated pairs) of its unordered pair, counted
\* with multiplicity, while its categories and values are the sets of the
\* distinct categories and values of those events.
C1_WeightAdditivity ==
    /\ \A k \in 1..Len(weighted_edges) :
          LET e == weighted_edges[k]
              info == csv_combined_edges[k].info
              evs == CsvEventsOf(e.Source, e.Target)
          IN  /\ e.Weight = Cardinality(evs)
              /\ info.types = {edges_df[i].Type : i \in evs}
              /\ info.connections = {edges_df[i].Connection_full : i \in evs}
    /\ \A k \in 1..Len(edges) :
          LET e == edges[k]
              evs == ApiEventsOf(e.source, e.target)
              same(list, type) ==
                  /\ SeqToSet(list) = ValuesOf(evs, type)
                  /\ Len(list) = Cardinality(ValuesOf(evs, type))
          IN  /\ e.weight = Cardinality(evs)
              /\ SeqToSet(e.types) = {ev.type : ev \in evs}
              /\ Len(e.types) = Cardinality({ev.type : ev \in evs})
              /\ same(e.competencies, T_competency)
              /\ same(e.technical_competencies, T_technical_competency)
              /\ same(e.impacts, T_impact)
              /\ same(e.cities, T_city)
              /\ same(e.countries, T_country)
              /\ same(e.regions, T_region)
              /\ same(e.cohorts, T_cohort)

\* an edge between two startups was emitted whose weight counts a repeated
\* (category, value) event: more events than distinct connections
C1_Witness ==
    \E k \in 1..Len(edges) :
        /\ edges[k].source # edges[k].target
        /\ edges[k].weight > Cardinality(combined_edges[k].info.connections)
        /\ Cardinality(combined_edges[k].info.connections) >= 2

\* C2: when either pipeline has finished, there is exactly one edge for every
\* unordered entity pair that occurs in an event and none for any other pair,
\* and the key of every edge is the pair in sorted order ((A,B) and (B,A) rows
\* fold into the same edge).
C2_OneEdgePerPair ==
    /\ CsvDone =>
          LET pairs == {{edges_df[i].Source, edges_df[i].Target} : i \in 1..Len(edges_df)}
          IN  /\ Len(weighted_edges) = Cardinality(pairs)
              /\ {{weighted_edges[k].Source, weighted_edges[k].Target} :
                      k \in 1..Len(weighted_edges)} = pairs
              /\ \A k \in 1..Len(weighted_edges) :
                    ~StrLess(weighted_edges[k].Target, weighted_edges[k].Source)
    /\ ApiDone =>
          LET pairs == {ev.pair : ev \in ApiEvents}
          IN  /\ Len(edges) = Cardinality(pairs)
              /\ {{edges[k].source, edges[k].target} : k \in 1..Len(edges)} = pairs
              /\ \A k \in 1..Len(edges) : ~StrLess(edges[k].target, edges[k].source)

\* the CSV script has finished on rows that give the same two entities in both
\* orders, and emitted their edge
C2_Witness ==
    /\ CsvDone
    /\ \E i, j \in 1..Len(edges_df) :
          /\ edges_df[i].Source = edges_df[j].Target
          /\ edges_df[i].Target = edges_df[j].Source
          /\ StrLess(edges_df[i].Source, edges_df[i].Target)
    /\ Len(weighted_edges) >= 1

\* C3: no emitted edge of either pipeline has its source equal to its target.
C3_NoSelfEdges ==
    /\ \A k \in 1..Len(weighted_edges) : weighted_edges[k].Source # weighted_edges[k].Target
    /\ \A k \in 1..Len(edges) : edges[k].source # edges[k].target

\* C4: the detailed label of an emitted edge is the same string for every
\* order in which the sets holding the edge's connections and values may be
\* iterated (the label the run emitted equals the label of any other run on the
\* same events).
C4_LabelDeterministic ==
    /\ \A k \in 1..Len(weighted_edges) :
          \A order \in Orderings(csv_combined_edges[k].info.connections) :
              CsvLabelDetailed(weighted_edges[k].Source, weighted_edges[k].Target, order)
                  = weighted_edges[k].LabelDetailed
    /\ \A k \in 1..Len(edges) :
          edges[k].label_detailed = ApiTruncate(ApiLabelUntruncated(combined_edges[k].info))

Last(s) == s[Len(s)]

\* the characters that separate tokens or values in a label, and whitespace
SeparatorChars == {",", ";", " ", "\t"}

\* a label of at most 120 characters that, when long was cut, ends with exactly
\* one truncation marker that follows no separator or whitespace
BoundedLabel(label, long) ==
    /\ Len(label) <= 120
    /\ Len(long) > 120 =>
          /\ Last(label) = ELLIPSIS
          /\ Len(label) >= 2 => label[Len(label) - 1] \notin SeparatorChars \cup {ELLIPSIS}

\* C5: every emitted detailed label has at most 120 characters and, when the
\* untruncated label was longer, ends with exactly one truncation marker that
\* follows no trailing separator character or whitespace.
C5_LabelBound ==
    /\ \A k \in 1..Len(weighted_edges) :
          BoundedLabel(weighted_edges[k].LabelDetailed,
                       CsvLabelUntruncated(weighted_edges[k].Source,
                                           weighted_edges[k].Target, csv_iter[k]))
    /\ \A k \in 1..Len(edges) :
          BoundedLabel(edges[k].label_detailed,
                       ApiLabelUntruncated(combined_edges[k].info))

\* no two entries of the list are equal after collapsing whitespace and
\* case-folding
NoFoldedDuplicates(list) ==
    \A i, j \in 1..Len(list) : i # j => NormKey(list[i]) # NormKey(list[j])

\* C6: no per-category value collection of an emitted edge holds two entries
\* that are equal after collapsing whitespace and case-folding.
C6_Dedup ==
    /\ \A k \in 1..Len(edges) :
          /\ NoFoldedDuplicates(edges[k].competencies)
          /\ NoFoldedDuplicates(edges[k].technical_competencies)
          /\ NoFoldedDuplicates(edges[k].impacts)
          /\ NoFoldedDuplicates(edges[k].cities)
          /\ NoFoldedDuplicates(edges[k].countries)
          /\ NoFoldedDuplicates(edges[k].regions)
          /\ NoFoldedDuplicates(edges[k].cohorts)
    /\ \A k \in 1..Len(weighted_edges) :
          LET parsed == Parsed(csv_iter[k])
          IN  /\ NoFoldedDuplicates(dedupe_preserve_order(parsed[K_competency]))
              /\ NoFoldedDuplicates(dedupe_preserve_order(parsed[K_impact]))
              /\ NoFoldedDuplicates(dedupe_preserve_order(parsed[K_target_market]))

\* C7: once the index is built, every connection_index item held by n distinct
\* entities expands to exactly C(n,2) sharing events, one for each unordered
\* pair of distinct entities with the smaller name as source, and to none when
\* fewer than 2 entities hold the value.
C7_PairExpansion ==
    api_pc = "running" /\ api_i = Len(records) =>
        \A n \in 1..Len(connection_index) :
            LET holders == SeqToSet(connection_index[n].list)
                pairs == ExpandPairs(connection_index[n].list)
                c == Cardinality(holders)
            IN  /\ 2 * Len(pairs) = c * (c - 1)
                /\ \A a, b \in holders :
                      StrLess(a, b) =>
                          Cardinality({q \in 1..Len(pairs) : pairs[q] = <<a, b>>}) = 1

\* the category a connection string names: the lower-cased text before its
\* first ': '
NamedCategory(conn) == Lower(Strip(SubSeq(conn, 1, FindFirst(conn, <<":", " ">>) - 1)))

\* the value a connection string carries: the text after its first ': ', or
\* the whole string when it has no ': '
CarriedValue(conn) ==
    IF Contains(conn, <<":", " ">>)
    THEN Strip(SubSeq(conn, FindFirst(conn, <<":", " ">>) + 2, Len(conn)))
    ELSE conn

Unfiled(conn) ==
    \/ ~Contains(conn, <<":", " ">>)
    \/ NamedCategory(conn) \notin ParsedKeys

\* C8: in the CSV pipeline every aggregated edge gets its row, and a connection
\* string of the edge that has no ': ' or names an unknown category has its
\* value in parsed['other'] and in the Connections column of the emitted row.
C8_UnknownFiledUnderOther ==
    /\ CsvDone => Len(weighted_edges) = Len(csv_combined_edges)
    /\ \A k \in 1..Len(weighted_edges) :
          \A conn \in csv_combined_edges[k].info.connections :
              Unfiled(conn) =>
                  /\ \E i \in 1..Len(Parsed(csv_iter[k])[K_other]) :
                        Parsed(csv_iter[k])[K_other][i] = CarriedValue(conn)
                  /\ Contains(weighted_edges[k].Connections, CarriedValue(conn))

\* a row was emitted for an edge that has both a connection string of an
\* unknown category and one without separator
C8_Witness ==
    \E k \in 1..Len(weighted_edges) :
        /\ Chars("foo: bar") \in csv_combined_edges[k].info.connections
        /\ Chars("nosep") \in csv_combined_edges[k].info.connections
        /\ weighted_edges[k].Weight >= 2

\* C9: once process_records has indexed the records, every key of the index has
\* a trimmed, non-empty value, and exactly the records with a non-empty display
\* name have a node and hold index entries.
C9_IndexedValuesClean ==
    api_pc = "running" /\ api_i = Len(records) =>
        /\ \A n \in 1..Len(connection_index) :
              /\ connection_index[n].key[2] # <<>>
              /\ connection_index[n].key[2] = Strip(connection_index[n].key[2])
        /\ LET named == {i \in 1..Len(records) :
                            /\ records[i].fields.Startup.kind = "str"
                            /\ \E c \in 1..Len(records[i].fields.Startup.items[1]) :
                                  ~IsSpace(records[i].fields.Startup.items[1][c])}
           IN  /\ Len(nodes) = Cardinality(named)
               /\ \A n \in 1..Len(connection_index) :
                     \A h \in 1..Len(connection_index[n].list) :
                         \E i \in named :
                             Strip(records[i].fields.Startup.items[1])
                                 = connection_index[n].list[h]

\* C10: process_records runs, and export_json writes, only on the complete
\* record set: while fetching, all_records holds exactly the pages before the
\* cursor; process_records is given every record of every page; a run that ends
\* in "No records fetched" has an empty result, even after pages were fetched,
\* and neither aggregates nor exports.
C10_CompleteBeforeAggregation ==
    /\ main_pc = "fetching" =>
          all_records = AllPagesFrom(SubSeq(pages, 1, IF offset = 0 THEN 0 ELSE offset - 1), 1)
    /\ api_pc = "running" =>
          /\ env_ok
          /\ main_pc \in {"processing", "done"}
          /\ records = AllPagesFrom(pages, 1)
    /\ exported # <<>> =>
          /\ main_pc = "done"
          /\ ApiDone
          /\ exported[1].nodes = nodes /\ exported[1].edges = edges
    /\ main_pc \in {"exit_env", "exit_empty"} =>
          /\ api_pc = "idle"
          /\ records = <<>>
          /\ nodes = <<>> /\ edges = <<>>
          /\ exported = <<>>

\* a request failed after a page with records had been fetched, and the run
\* ended without aggregating
C10_Witness ==
    /\ main_pc = "exit_empty"
    /\ all_records # <<>>
    /\ offset # 0

\* a token of a label together with the precedence rank of its category:
\* 0 entity names, 1 competency-like, 2 impact, 3 market/region/cohort, 4 city,
\* 5 country; no entry for a category without token
Ranked(rank, token) == IF token # <<>> THEN <<[rank |-> rank, token |-> token]>> ELSE <<>>

\* the tokens the CSV script computes for one edge, by category
CsvRankedTokens(source, target, parsed) ==
    Ranked(0, source) \o Ranked(0, target)
    \o Ranked(1, Join(<<";">>, dedupe_preserve_order(parsed[K_competency])))
    \o Ranked(2, Join(<<";">>, dedupe_preserve_order(parsed[K_impact])))
    \o Ranked(3, Join(<<";">>, dedupe_preserve_order(parsed[K_target_market])))
    \o Ranked(4, norm_location(FirstOrEmpty(parsed[K_city])))
    \o Ranked(5, norm_location(FirstOrEmpty(parsed[K_country])))

\* the token of one category of an aggregated edge of process_records
ApiToken(S) == IF S # {} THEN Join(<<";", " ">>, SortedSet(S)) ELSE <<>>

ApiLocToken(S) ==
    IF S # {}
    THEN LET sorted == SortedSet(S)
         IN  Join(<<";", " ">>,
                  AsList([i \in 1..Len(sorted) |-> normalize_location(sorted[i])]))
    ELSE <<>>

\* the tokens process_records computes for one edge, by category
ApiRankedTokens(info) ==
    Ranked(1, ApiToken(info.competencies))
    \o Ranked(1, ApiToken(info.technical_competencies))
    \o Ranked(2, ApiToken(info.impacts))
    \o Ranked(3, ApiToken(info.regions))
    \o Ranked(3, ApiToken(info.cohorts))
    \o Ranked(4, ApiLocToken(info.cities))
    \o Ranked(5, ApiLocToken(info.countries))

\* position of the first occurrence of token in parts, 0 when it is absent
TokenIndex(parts, token) ==
    IF \E i \in 1..Len(parts) : parts[i] = token
    THEN CHOOSE i \in 1..Len(parts) :
            parts[i] = token /\ \A j \in 1..(i - 1) : parts[j] # token
    ELSE 0

\* among the tokens present in parts, one of a lower rank comes before every
\* different one of a higher rank
InPrecedenceOrder(parts, ranked) ==
    \A a, b \in 1..Len(ranked) :
        (/\ ranked[a].rank < ranked[b].rank
         /\ ranked[a].token # ranked[b].token
         /\ TokenIndex(parts, ranked[a].token) > 0
         /\ TokenIndex(parts, ranked[b].token) > 0)
        => TokenIndex(parts, ranked[a].token) < TokenIndex(parts, ranked[b].token)

\* C11: in both pipelines the tokens joined into the detailed label of an
\* emitted edge follow the precedence order entity names, competency-like
\* categories, impact, market/region/cohort, city, country: a token of a later
\* category never precedes a token of an earlier one.
C11_TokenPrecedence ==
    /\ \A k \in 1..Len(weighted_edges) :
          LET src == weighted_edges[k].Source
              tgt == weighted_edges[k].Target
              parsed == Parsed(csv_iter[k])
              final_parts == dedupe_preserve_order(CsvRawParts(src, tgt, parsed))
          IN  /\ weighted_edges[k].LabelDetailed
                    = CsvTruncate(Join(<<",", " ">>, final_parts))
              /\ InPrecedenceOrder(final_parts, CsvRankedTokens(src, tgt, parsed))
    /\ \A k \in 1..Len(edges) :
          LET label_parts == ApiLabelParts(combined_edges[k].info)
          IN  /\ edges[k].label_detailed
                    = ApiTruncate(Join(<<",", " ">>, label_parts))
              /\ InPrecedenceOrder(label_parts, ApiRankedTokens(combined_edges[k].info))

====
